---- MODULE Spec2Model ----
(***************************************************************************)
(* Model of the Group ("Click") creation dialog of snuggle-login-app:      *)
(* src/src/components/clicks/CreateClickDialog.tsx, and of its earlier     *)
(* revision src/unnamed/part_003, which asks for a name only and invites   *)
(* nobody.  A run of the model is a run of one of the two revisions.       *)
(*                                                                         *)
(* The dialog is a React component.  Its state is the component state      *)
(* (open, commandOpen, selectedMembers, the react-hook-form values), the   *)
(* session user delivered by useAuth(), and the react-query cache of the   *)
(* "available-users" query.  The backend (two tables, clicks and           *)
(* click_members) is modelled by the rows it holds; an insert is applied   *)
(* when its response is delivered, and a response that carries an error    *)
(* applies nothing (the contract of the backend client: a request either   *)
(* returns its rows or an error).  onSubmit is an async function: every    *)
(* await is a position (pc) of the submission, and the code between two    *)
(* awaits is one action.  The variables captured by the closure of         *)
(* onSubmit (user, selectedMembers, data) are copied into the submission   *)
(* when it starts.                                                         *)
(*                                                                         *)
(* Strings that the code only measures or copies (name, description) are   *)
(* represented by their length.                                            *)
(*                                                                         *)
(* The second part models the profile editor, the page Profile of          *)
(* src/src/types/click.ts (and src/unnamed/part_001, the same handlers):   *)
(* its form, handleUpdate and handleAvatarUpload, the table profiles and   *)
(* the bucket avatars.  Its first revision, in the same file, has three    *)
(* fields, no schema and no avatar.  The two components share no state, so *)
(* each has its own specification and stays at its initial state in the    *)
(* other's.                                                                *)
(***************************************************************************)
EXTENDS Integers, Sequences, FiniteSets, TLC

\* ---------------------------------------------------------------- bounds
\* Number of times the form is submitted in one run of the model.
MaxSubmissions == 1

\* The same where the form is submitted again after an attempt.
MaxAttempts == 2

\* Number of times the profile is saved, and an avatar chosen, in one run.
MaxSaves == 1
MaxUploads == 2

\* ------------------------------------------------------ program constants
NameMin == 3
NameMax == 50
DescriptionMax == 500
DayMin == 1
DayMax == 31
FullNameMin == 2
FullNameMax == 100
UsernameMin == 3
UsernameMax == 50
BioMax == 500
LocationMax == 100

\* ------------------------------------------------------------ JS values
\* A JavaScript value that is undefined, null, a string (by its length), a
\* number, NaN, or a string that spells a number (by the number).
JsUndefined == [t |-> "undefined", v |-> 0]
JsNull == [t |-> "null", v |-> 0]
Str(len) == [t |-> "string", v |-> len]
Num(n) == [t |-> "number", v |-> n]
NaN == [t |-> "nan", v |-> 0]
NumStr(n) == [t |-> "numstr", v |-> n]

\* JavaScript truthiness of such a value: undefined, null, NaN, "" and 0 are
\* falsy; a string that spells a number is not empty.
Falsy(x) ==
  \/ x.t \in {"undefined", "null", "nan"}
  \/ x.t \in {"string", "number"} /\ x.v = 0

\* Number(x), the coercion of z.coerce.number(): null and "" give 0, a string
\* that spells a number gives the number, any other string NaN.
CoerceNumber(x) ==
  CASE x.t = "number" -> x
    [] x.t = "numstr" -> Num(x.v)
    [] x.t = "null" -> Num(0)
    [] x.t = "string" -> IF x.v = 0 THEN Num(0) ELSE NaN
    [] OTHER -> NaN

\* x || null
OrNull(x) == IF Falsy(x) THEN JsNull ELSE x

\* The same for the fields kept as strings (schedule_frequency,
\* schedule_time): "undefined" and "null" stand for the two absent values.
OrNullStr(s) == IF s \in {"undefined", "null", ""} THEN "null" ELSE s

None == "none"
Users == {"U1", "U2"}

\* The two revisions of the dialog.
Revisions == {"invite", "nameOnly"}
Frequencies == {"daily", "weekly", "monthly"}

\* ------------------------------------------------------------- the form
\* defaultValues of useForm.
DefaultValues ==
  [name |-> Str(0), description |-> Str(0), schedule_frequency |-> "undefined",
   schedule_day |-> JsUndefined, schedule_time |-> "undefined"]

\* The values a user can bring the form to: the dialog renders inputs for
\* name, description and schedule_frequency only.
FormInputs ==
  { [DefaultValues EXCEPT !.name = Str(2)],
    [DefaultValues EXCEPT !.name = Str(NameMin)],
    [DefaultValues EXCEPT !.name = Str(NameMax), !.description = Str(DescriptionMax),
                          !.schedule_frequency = "weekly"],
    [DefaultValues EXCEPT !.name = Str(NameMax + 1)] }

\* createClickSchema, field by field.
\* (Faulty variant: a minimum one character too low.)
NameOkMin2(x) == x.t = "string" /\ x.v >= NameMin - 1 /\ x.v <= NameMax

NameOk(x) == x.t = "string" /\ x.v >= NameMin /\ x.v <= NameMax
DescriptionOk(x) == x.t = "undefined" \/ (x.t = "string" /\ x.v <= DescriptionMax)
FrequencyOk(s) == s = "undefined" \/ s \in Frequencies

\* (Faulty variant: a minimum one day too low.)
DayOkMin0(x) ==
  \/ x.t = "undefined"
  \/ CoerceNumber(x).t = "number" /\ CoerceNumber(x).v >= DayMin - 1
                                  /\ CoerceNumber(x).v <= DayMax

DayOk(x) ==
  \/ x.t = "undefined"
  \/ CoerceNumber(x).t = "number" /\ CoerceNumber(x).v >= DayMin
                                  /\ CoerceNumber(x).v <= DayMax

TimeOk(s) == s # "null"

createClickSchema(d) ==
  /\ NameOk(d.name)
  /\ DescriptionOk(d.description)
  /\ FrequencyOk(d.schedule_frequency)
  /\ DayOk(d.schedule_day)
  /\ TimeOk(d.schedule_time)

\* The values the resolver hands to onSubmit when createClickSchema accepts
\* d: schedule_day is the coerced number.
Parsed(d) ==
  [d EXCEPT !.schedule_day = IF @.t = "undefined" THEN @ ELSE CoerceNumber(@)]

\* Values of the form beyond those its inputs can produce, for createClickSchema
\* as a function: every field at and beyond the limits of its constraint.
SchemaInputs ==
  [name : {Str(NameMin), Str(NameMax)},
   description : {JsUndefined, Str(0), Str(DescriptionMax), Str(DescriptionMax + 1)},
   schedule_frequency : {"undefined", "yearly"} \cup Frequencies,
   schedule_day : {JsUndefined, JsNull, Num(DayMin - 1), Num(DayMin), Num(DayMax),
                   Num(DayMax + 1), NumStr(DayMax)},
   schedule_time : {"undefined", "", "09:00"}]

\* createClickSchema of the name-only revision.
createClickSchemaNameOnly(d) == NameOk(d.name)

\* The values the name-only form can hold: those that differ from the
\* defaults in the name alone.
NameOnlyInput(d) == d = [DefaultValues EXCEPT !.name = d.name]

\* ------------------------------------------------------- notifications
SuccessToast ==
  [variant |-> "default", title |-> "Click created!",
   description |-> "Your new Click has been created successfully."]

UnauthenticatedToast ==
  [variant |-> "destructive", title |-> "Error",
   description |-> "You must be logged in to create a Click."]

\* An error value as the catch clause sees it: whether it is an instance of
\* Error, and its message.  The errors returned by the backend client are
\* plain objects or Error instances depending on the client version; a
\* thrown error is an Error instance.
ErrorValues ==
  { [instanceofError |-> TRUE, message |-> "Failed to fetch"],
    [instanceofError |-> FALSE, message |-> "Failed to fetch"] }

NullDereference ==
  [instanceofError |-> TRUE, message |-> "Cannot read properties of null (reading 'id')"]

\* The toast of the catch clause of onSubmit.
CatchToast(e) ==
  [variant |-> "destructive", title |-> "Error",
   description |-> IF e.instanceofError THEN e.message
                   ELSE "There was an error creating your Click."]

\* The same three of the name-only revision, whose guard throws NotLoggedIn
\* into the catch clause.
SuccessToastNameOnly ==
  [variant |-> "default", title |-> "Success", description |-> "Click created successfully!"]

NotLoggedIn ==
  [instanceofError |-> TRUE, message |-> "You must be logged in to create a Click"]

CatchToastNameOnly(e) ==
  [variant |-> "destructive", title |-> "Error",
   description |-> IF e.instanceofError THEN e.message ELSE "Failed to create click"]

\* ------------------------------------------------------------- backend
\* The responses of the backend to one insert: the row(s) were written
\* ("ok"), the request failed with an error object ("error"), and, for
\* insert().select().single(), neither a row nor an error came back
\* ("norow").
NoError == [instanceofError |-> FALSE, message |-> ""]

Responses ==
  {[kind |-> "ok", error |-> NoError]} \cup {[kind |-> "error", error |-> e] : e \in ErrorValues}

NoRow == [kind |-> "norow", error |-> NoError]

\* The object passed to from("clicks").insert().
\* (Faulty variant: schedule_day is passed on as it is.)
ClickInsertDayAsIs(d, u) ==
  [name |-> d.name,
   description |-> OrNull(d.description),
   schedule_frequency |-> OrNullStr(d.schedule_frequency),
   schedule_day |-> d.schedule_day,
   schedule_time |-> OrNullStr(d.schedule_time),
   created_by |-> u]

ClickInsert(d, u) ==
  [name |-> d.name,
   description |-> OrNull(d.description),
   schedule_frequency |-> OrNullStr(d.schedule_frequency),
   schedule_day |-> OrNull(d.schedule_day),
   schedule_time |-> OrNullStr(d.schedule_time),
   created_by |-> u]

\* The same of the name-only revision: a fixed description of 13 characters;
\* the columns it leaves out take their default, null.
ClickInsertNameOnly(d, u) ==
  [name |-> d.name, description |-> Str(13), schedule_frequency |-> "null",
   schedule_day |-> JsNull, schedule_time |-> "null", created_by |-> u]

\* The row the backend stores for it, under the identifier it generates.
ClickRow(id, ins) ==
  [id |-> id, name |-> ins.name, description |-> ins.description,
   schedule_frequency |-> ins.schedule_frequency, schedule_day |-> ins.schedule_day,
   schedule_time |-> ins.schedule_time, created_by |-> ins.created_by]

\* The object passed to from("click_members").insert() for the creator.
\* (Faulty variant: the creator is given the role member.)
CreatorInsertAsMember(clickId, u) == [click_id |-> clickId, user_id |-> u, role |-> "member"]

CreatorInsert(clickId, u) == [click_id |-> clickId, user_id |-> u, role |-> "admin"]

\* selectedMembers.map(member => ({click_id, user_id: member.id, role: "member"}))
MembersInsert(clickId, members) ==
  [k \in 1..Len(members) |-> [click_id |-> clickId, user_id |-> members[k], role |-> "member"]]

Range(s) == {s[k] : k \in 1..Len(s)}

VARIABLES
  revision,         \* which revision of the dialog runs
  user,             \* useAuth().user: the id of the session's user, or None
  open,             \* useState(false): the dialog is open
  commandOpen,      \* useState(false): the user picker is open
  selectedMembers,  \* useState([]): the ids of the users chosen to be invited
  form,             \* the values of the react-hook-form
  users,            \* data of useQuery(["available-users"]): a set of ids
  clicks,           \* rows of the backend table clicks
  click_members,    \* rows of the backend table click_members
  nextId,           \* the identifier the backend generates next
  subs              \* the submissions of the form, in order

\* The profile editor (the page Profile), its backend table and its bucket.
VARIABLES
  editor,           \* which revision of the profile editor runs
  isEditing,        \* useState(false): the fields are inputs
  uploading,        \* useState(false): an avatar upload is running
  formData,         \* useState: the values of the fields
  profile,          \* data of useQuery(["profile", user.id]): the row last fetched
  fetching,         \* the profile query is in flight
  profiles,         \* rows of the backend table profiles, by id
  objects,          \* the paths of the objects stored in the bucket avatars
  nextUuid,         \* stands for the value crypto.randomUUID() returns next
  saves,            \* the invocations of handleUpdate, in order
  uploads           \* the invocations of handleAvatarUpload, in order

profileVars == <<editor, isEditing, uploading, formData, profile, fetching, profiles,
                 objects, nextUuid, saves, uploads>>

dialogVars == <<revision, user, open, commandOpen, selectedMembers, form, users, clicks,
                click_members, nextId, subs>>

vars == <<dialogVars, profileVars>>

ui == <<open, commandOpen, selectedMembers, form>>
db == <<clicks, click_members, nextId>>

\* ------------------------------------------------- the profile editor
\* The revisions of the page: the first writes the three fields it has
\* without validating them; the later ones parse the form with
\* profileSchema and have the avatar upload.
Editors == {"plain", "validated"}

\* A string that new URL() accepts, by its length.
Url(len) == [t |-> "url", v |-> len]

IsString(x) == x.t \in {"string", "url", "numstr"}

\* x ?? "" (and x || "" of the earlier revisions, the same on these values).
OrEmpty(x) == IF x.t \in {"undefined", "null"} THEN Str(0) ELSE x

NoLinks == [twitter |-> Str(0), github |-> Str(0), linkedin |-> Str(0)]

\* useState of formData.
EmptyProfileForm ==
  [full_name |-> Str(0), username |-> Str(0), website |-> Str(0), bio |-> Str(0),
   location |-> Str(0), social_links |-> NoLinks]

\* profileSchema, field by field.
LengthWithin(x, lo, hi) == IsString(x) /\ x.v >= lo /\ x.v <= hi
UrlOrEmpty(x) == x.t \in {"undefined", "url"} \/ x = Str(0)
OptionalUpTo(x, hi) == x.t = "undefined" \/ LengthWithin(x, 0, hi)

\* (Faulty variant: the links are not validated.)
profileSchemaWithoutLinks(f) ==
  /\ LengthWithin(f.full_name, FullNameMin, FullNameMax)
  /\ LengthWithin(f.username, UsernameMin, UsernameMax)
  /\ UrlOrEmpty(f.website)
  /\ OptionalUpTo(f.bio, BioMax)
  /\ OptionalUpTo(f.location, LocationMax)

profileSchema(f) ==
  /\ LengthWithin(f.full_name, FullNameMin, FullNameMax)
  /\ LengthWithin(f.username, UsernameMin, UsernameMax)
  /\ UrlOrEmpty(f.website)
  /\ OptionalUpTo(f.bio, BioMax)
  /\ OptionalUpTo(f.location, LocationMax)
  /\ UrlOrEmpty(f.social_links.twitter)
  /\ UrlOrEmpty(f.social_links.github)
  /\ UrlOrEmpty(f.social_links.linkedin)

\* The values a user can bring the fields to.
ShortProfile ==
  [EmptyProfileForm EXCEPT !.full_name = Str(FullNameMin), !.username = Str(UsernameMin)]

LongProfile ==
  [full_name |-> Str(FullNameMax), username |-> Str(UsernameMax), website |-> Url(20),
   bio |-> Str(BioMax), location |-> Str(LocationMax),
   social_links |-> [NoLinks EXCEPT !.twitter = Url(20)]]

ProfileInputs ==
  { ShortProfile,
    LongProfile,
    [ShortProfile EXCEPT !.full_name = Str(FullNameMin - 1)],
    [ShortProfile EXCEPT !.website = Str(5)],
    [LongProfile EXCEPT !.bio = Str(BioMax + 1)],
    [ShortProfile EXCEPT !.social_links = [NoLinks EXCEPT !.linkedin = Str(5)]] }

\* The three fields of the first revision.
PlainFields(f) == [full_name |-> f.full_name, username |-> f.username, website |-> f.website]

\* The values its form can hold: it has no other field.
PlainInput(f) == f = [EmptyProfileForm EXCEPT !.full_name = f.full_name,
                                               !.username = f.username,
                                               !.website = f.website]

\* A row of profiles as it is created with the account.
NewProfileRow ==
  [full_name |-> JsNull, username |-> JsNull, website |-> JsNull, bio |-> JsNull,
   location |-> JsNull, social_links |-> JsNull, avatar_url |-> JsNull]

\* setFormData of queryFn: the row's fields, "" where one is null.
FormOf(row) ==
  [full_name |-> OrEmpty(row.full_name), username |-> OrEmpty(row.username),
   website |-> OrEmpty(row.website), bio |-> OrEmpty(row.bio),
   location |-> OrEmpty(row.location),
   social_links |-> IF row.social_links = JsNull THEN NoLinks
                    ELSE [twitter |-> OrEmpty(row.social_links.twitter),
                          github |-> OrEmpty(row.social_links.github),
                          linkedin |-> OrEmpty(row.social_links.linkedin)]]

\* The same of the first revision.
FormOfPlain(row) ==
  [EmptyProfileForm EXCEPT !.full_name = OrEmpty(row.full_name),
                           !.username = OrEmpty(row.username),
                           !.website = OrEmpty(row.website)]

\* update(values).eq("id", id) on profiles, and what it makes of a row.
ProfileUpdate(values, id) == [target |-> "profiles", set |-> values, id |-> id]

Updated(row, values) ==
  [k \in DOMAIN row |-> IF k \in DOMAIN values THEN values[k] ELSE row[k]]

\* The files of an input event: none, or one file, whose name is the list of
\* the parts its dots separate.
NoFile == <<>>
FileNames == {<<"photo", "png">>, <<"avatar">>}

\* file.name.split(".").pop()
FileExt(name) == name[Len(name)]

\* `${user?.id}/${crypto.randomUUID()}.${fileExt}`
FilePath(u, uuid, name) == [folder |-> u, uuid |-> uuid, ext |-> FileExt(name)]

\* storage.from("avatars").upload(filePath, file) and getPublicUrl(filePath).
AvatarUpload(path) == [target |-> "avatars", path |-> path]
PublicUrl(path) == [t |-> "url", bucket |-> "avatars", path |-> path]

\* The toasts of the two handlers.
ProfileUpdatedToast ==
  [variant |-> "default", title |-> "Profile updated",
   description |-> "Your profile has been updated successfully."]

ValidationErrorToast ==
  [variant |-> "destructive", title |-> "Validation Error", description |-> "messages"]

UpdateErrorToast ==
  [variant |-> "destructive", title |-> "Error",
   description |-> "There was an error updating your profile."]

AvatarUpdatedToast ==
  [variant |-> "default", title |-> "Success", description |-> "Avatar updated successfully"]

AvatarErrorToast ==
  [variant |-> "destructive", title |-> "Error", description |-> "Error uploading avatar."]

\* The cache of the profile query before its first answer.
NoProfile == [id |-> None]

\* The page as it mounts: the query is in flight.
ProfileInit(e) ==
  /\ editor = e
  /\ isEditing = FALSE
  /\ uploading = FALSE
  /\ formData = EmptyProfileForm
  /\ profile = NoProfile
  /\ fetching = TRUE
  /\ profiles = [u \in Users |-> NewProfileRow]
  /\ objects = {}
  /\ nextUuid = 1
  /\ saves = <<>>
  /\ uploads = <<>>

\* A write the workflow has issued: its table and the rows it carries.
Write(table, rows) == [table |-> table, rows |-> rows]

\* One submission of the form.  pc is the await it is suspended at, or
\* "done"; outcome names the branch it ended in: "invalid" (the resolver
\* rejected the values), "unauthenticated", "clickError", "creatorError",
\* "membersError" (the error thrown into the catch clause) or "success";
\* click is the id of the row the first insert returned, 0 before; resp lists
\* the kinds of the responses the backend gave to its writes.
Submission(d, u, m, pc, outcome, writes, toasts) ==
  [data |-> d, user |-> u, members |-> m, pc |-> pc, outcome |-> outcome,
   click |-> 0, resp |-> <<>>, writes |-> writes, toasts |-> toasts]

Init ==
  /\ revision \in Revisions
  /\ user = "U1"
  /\ open = FALSE
  /\ commandOpen = FALSE
  /\ selectedMembers = <<>>
  /\ form = DefaultValues
  /\ users = {}
  /\ clicks = {}
  /\ click_members = {}
  /\ nextId = 1
  /\ subs = <<>>
  /\ ProfileInit("validated")

\* ------------------------------------------------------------ UI events
\* Dialog onOpenChange={setOpen}.
SetOpen(b) ==
  /\ open # b
  /\ open' = b
  /\ UNCHANGED <<profileVars, revision, user, commandOpen, selectedMembers, form, users, db, subs>>

\* The inner Dialog onOpenChange={setCommandOpen}; it is rendered inside the
\* content of the outer dialog.
SetCommandOpen(b) ==
  /\ revision = "invite"
  /\ open
  /\ commandOpen # b
  /\ commandOpen' = b
  /\ UNCHANGED <<profileVars, revision, user, open, selectedMembers, form, users, db, subs>>

\* The user types into the fields of the form.
EditForm(d) ==
  /\ open
  /\ revision = "nameOnly" => NameOnlyInput(d)
  /\ form # d
  /\ form' = d
  /\ UNCHANGED <<profileVars, revision, user, open, commandOpen, selectedMembers, users, db, subs>>

\* queryFn of the available-users query: the profiles whose id is not the
\* session user's.  Every user has a profile.
AvailableUsers(u) == {p \in Users : p # u}

FetchUsers ==
  /\ revision = "invite"
  /\ open
  /\ user # None
  /\ users # AvailableUsers(user)
  /\ users' = AvailableUsers(user)
  /\ UNCHANGED <<profileVars, revision, user, ui, db, subs>>

\* CommandItem onSelect for the listed user u.
\* (Faulty variant: the user is appended whether selected or not.)
SelectAppendAlways(prev, u) == Append(prev, u)

SelectAppend(prev, u) == IF u \in Range(prev) THEN prev ELSE Append(prev, u)

OnSelect(u) ==
  /\ revision = "invite"
  /\ open
  /\ commandOpen
  /\ u \in users
  /\ selectedMembers' = SelectAppend(selectedMembers, u)
  /\ commandOpen' = FALSE
  /\ UNCHANGED <<profileVars, revision, user, open, form, users, db, subs>>

\* removeSelectedMember: prev.filter(member => member.id !== userId).
removeSelectedMember(u) ==
  /\ revision = "invite"
  /\ open
  /\ u \in Range(selectedMembers)
  /\ selectedMembers' = SelectSeq(selectedMembers, LAMBDA m : m # u)
  /\ UNCHANGED <<profileVars, revision, user, open, commandOpen, form, users, db, subs>>

\* The Cancel button.  The name-only revision has no selection to clear.
\* (Faulty variant: cancelling also ends the submissions in flight.)
CancelAborting ==
  /\ open
  /\ open' = FALSE
  /\ selectedMembers' = <<>>
  /\ form' = DefaultValues
  /\ subs' = [i \in 1..Len(subs) |->
               IF subs[i].pc = "done" THEN subs[i]
               ELSE [subs[i] EXCEPT !.pc = "done", !.outcome = "aborted"]]
  /\ UNCHANGED <<profileVars, revision, user, commandOpen, users, db>>

Cancel ==
  /\ open
  /\ open' = FALSE
  /\ selectedMembers' = <<>>
  /\ form' = DefaultValues
  /\ UNCHANGED <<profileVars, revision, user, commandOpen, users, db, subs>>

\* The session provider delivers another user, or none.
AuthStateChange(u) ==
  /\ u # user
  /\ user' = u
  /\ UNCHANGED <<profileVars, revision, ui, users, db, subs>>

\* ------------------------------------------------------------- onSubmit
\* The catch clause: one destructive toast.
\* (Faulty variant: the catch clause shows nothing.)
CaughtSilently(s, outcome, e) == [s EXCEPT !.pc = "done", !.outcome = outcome]

Caught(s, outcome, e) ==
  [s EXCEPT !.pc = "done", !.outcome = outcome, !.toasts = Append(@, CatchToast(e))]

\* The end of the try block: the success toast; the caller also closes the
\* dialog, clears the selection and resets the form.
Succeeded(s) ==
  [s EXCEPT !.pc = "done", !.outcome = "success", !.toasts = Append(@, SuccessToast)]

\* form.handleSubmit(onSubmit): the resolver validates the values and calls
\* onSubmit only if they pass; onSubmit runs up to its first await.
\* (Faulty variant: onSubmit without its guard on user.)
HandleSubmitNoUserCheck(d, u, m) ==
  IF ~createClickSchema(d)
    THEN [data |-> d, user |-> u, members |-> m, pc |-> "done", outcome |-> "invalid",
          click |-> 0, resp |-> <<>>, writes |-> <<>>, toasts |-> <<>>]
  ELSE [data |-> d, user |-> u, members |-> m, pc |-> "awaitClick", outcome |-> "running",
        click |-> 0, resp |-> <<>>,
        writes |-> <<[table |-> "clicks", rows |-> <<ClickInsert(Parsed(d), u)>>]>>,
        toasts |-> <<>>]

HandleSubmit(d, u, m) ==
  IF ~createClickSchema(d)
    THEN Submission(d, u, m, "done", "invalid", <<>>, <<>>)
  ELSE IF u = None
    THEN Submission(d, u, m, "done", "unauthenticated", <<>>, <<UnauthenticatedToast>>)
  ELSE Submission(d, u, m, "awaitClick", "running",
                  <<Write("clicks", <<ClickInsert(Parsed(d), u)>>)>>, <<>>)

\* The same three of the name-only revision.
CaughtNameOnly(s, outcome, e) ==
  [s EXCEPT !.pc = "done", !.outcome = outcome, !.toasts = Append(@, CatchToastNameOnly(e))]

SucceededNameOnly(s) ==
  [s EXCEPT !.pc = "done", !.outcome = "success", !.toasts = Append(@, SuccessToastNameOnly)]

HandleSubmitNameOnly(d, u) ==
  IF ~createClickSchemaNameOnly(d)
    THEN Submission(d, u, <<>>, "done", "invalid", <<>>, <<>>)
  ELSE IF u = None
    THEN CaughtNameOnly(Submission(d, u, <<>>, "running", "running", <<>>, <<>>),
                        "unauthenticated", NotLoggedIn)
  ELSE Submission(d, u, <<>>, "awaitClick", "running",
                  <<Write("clicks", <<ClickInsertNameOnly(d, u)>>)>>, <<>>)

Submit ==
  /\ open
  /\ Len(subs) < MaxSubmissions
  /\ subs' = Append(subs, IF revision = "invite"
                            THEN HandleSubmit(form, user, selectedMembers)
                            ELSE HandleSubmitNameOnly(form, user))
  /\ UNCHANGED <<profileVars, revision, user, ui, users, db>>

\* The form is submitted again: the same handler, counted against the bound
\* on attempts.
Resubmit ==
  /\ open
  /\ Len(subs) < MaxAttempts
  /\ subs' = Append(subs, IF revision = "invite"
                            THEN HandleSubmit(form, user, selectedMembers)
                            ELSE HandleSubmitNameOnly(form, user))
  /\ UNCHANGED <<profileVars, revision, user, ui, users, db>>

\* The first insert returns, and onSubmit runs up to its second await.
\* (Faulty variant: clickError is not looked at.)
AfterClickIgnoringError(s, r, id) ==
  [s EXCEPT !.pc = "awaitCreator", !.click = id,
            !.writes = Append(@, [table |-> "click_members",
                                  rows |-> <<CreatorInsert(id, s.user)>>])]

\* (Faulty variant: the row is read outside the try block, so that reading
\* the id of no row ends onSubmit with an error nobody catches.)
AfterClickNullEscapes(s, r, id) ==
  IF r.kind = "error" THEN Caught(s, "clickError", r.error)
  ELSE IF r.kind = "norow" THEN [s EXCEPT !.pc = "done", !.outcome = "uncaught"]
  ELSE [s EXCEPT !.pc = "awaitCreator", !.click = id,
                 !.writes = Append(@, [table |-> "click_members",
                                       rows |-> <<CreatorInsert(id, s.user)>>])]

\* (Faulty variant: the Group is looked up as the caller's first row rather
\* than taken from the answer of the insert.)
AfterClickFirstGroupOfCaller(s, r, id) ==
  IF r.kind = "error" THEN Caught(s, "clickError", r.error)
  ELSE IF r.kind = "norow" THEN Caught(s, "clickError", NullDereference)
  ELSE LET mine == {c.id : c \in {c \in clicks : c.created_by = s.user}} \cup {id}
           first == CHOOSE m \in mine : \A n \in mine : m <= n
       IN [s EXCEPT !.pc = "awaitCreator", !.click = first,
                    !.writes = Append(@, [table |-> "click_members",
                                          rows |-> <<CreatorInsert(first, s.user)>>])]

\* (Faulty variant: the creator's row is made for the user of the session
\* as it is when the first insert returns.)
AfterClickSessionUser(s, r, id) ==
  IF r.kind = "error" THEN Caught(s, "clickError", r.error)
  ELSE IF r.kind = "norow" THEN Caught(s, "clickError", NullDereference)
  ELSE [s EXCEPT !.pc = "awaitCreator", !.click = id,
                 !.writes = Append(@, [table |-> "click_members",
                                       rows |-> <<CreatorInsert(id, user)>>])]

AfterClick(s, r, id) ==
  IF r.kind = "error" THEN Caught(s, "clickError", r.error)
  ELSE IF r.kind = "norow" THEN Caught(s, "clickError", NullDereference)
  ELSE [s EXCEPT !.pc = "awaitCreator", !.click = id,
                 !.writes = Append(@, Write("click_members", <<CreatorInsert(id, s.user)>>))]

AfterClickNameOnly(s, r, id) ==
  IF r.kind = "error" THEN CaughtNameOnly(s, "clickError", r.error)
  ELSE IF r.kind = "norow" THEN CaughtNameOnly(s, "clickError", NullDereference)
  ELSE [s EXCEPT !.pc = "awaitCreator", !.click = id,
                 !.writes = Append(@, Write("click_members", <<CreatorInsert(id, s.user)>>))]

ClickInsertReturns(i, r) ==
  /\ subs[i].pc = "awaitClick"
  /\ subs' = [subs EXCEPT ![i] =
       IF revision = "invite"
         THEN AfterClick([@ EXCEPT !.resp = Append(@, r.kind)], r, nextId)
         ELSE AfterClickNameOnly([@ EXCEPT !.resp = Append(@, r.kind)], r, nextId)]
  /\ IF r.kind = "ok"
       THEN /\ clicks' = clicks \cup {ClickRow(nextId, subs[i].writes[1].rows[1])}
            /\ nextId' = nextId + 1
       ELSE UNCHANGED <<clicks, nextId>>
  /\ UNCHANGED <<profileVars, revision, user, ui, users, click_members>>

\* The end of the try block as seen by the component: setOpen(false),
\* setSelectedMembers([]) where there is a selection, form.reset().
\* (Faulty variant: the form is not reset.)
ResetKeepingForm ==
  /\ open' = FALSE
  /\ selectedMembers' = IF revision = "invite" THEN <<>> ELSE selectedMembers
  /\ UNCHANGED <<commandOpen, form>>

Reset ==
  /\ open' = FALSE
  /\ selectedMembers' = IF revision = "invite" THEN <<>> ELSE selectedMembers
  /\ form' = DefaultValues
  /\ UNCHANGED commandOpen

\* The creator's insert returns, and onSubmit runs up to its third await,
\* or to its end when nobody is invited.
\* (Faulty variant: creatorError is not looked at.)
AfterCreatorIgnoringError(s, r) ==
  IF Len(s.members) > 0
    THEN [s EXCEPT !.pc = "awaitMembers",
                   !.writes = Append(@, [table |-> "click_members",
                                         rows |-> MembersInsert(s.click, s.members)])]
  ELSE Succeeded(s)

\* (Faulty variant: a failed creator insert is issued again.)
AfterCreatorRetrying(s, r) ==
  IF r.kind # "ok" /\ Len(s.writes) < 3
    THEN [s EXCEPT !.writes = Append(@, [table |-> "click_members",
                                         rows |-> <<CreatorInsert(s.click, s.user)>>])]
  ELSE IF r.kind # "ok" THEN Caught(s, "creatorError", r.error)
  ELSE IF Len(s.members) > 0
    THEN [s EXCEPT !.pc = "awaitMembers",
                   !.writes = Append(@, [table |-> "click_members",
                                         rows |-> MembersInsert(s.click, s.members)])]
  ELSE Succeeded(s)

\* (Faulty variant: the batch is made of the selection as it is when the
\* creator's insert returns.)
AfterCreatorCurrentSelection(s, r) ==
  IF r.kind # "ok" THEN Caught(s, "creatorError", r.error)
  ELSE IF Len(selectedMembers) > 0
    THEN [s EXCEPT !.pc = "awaitMembers",
                   !.writes = Append(@, [table |-> "click_members",
                                         rows |-> MembersInsert(s.click, selectedMembers)])]
  ELSE Succeeded(s)

AfterCreator(s, r) ==
  IF r.kind # "ok" THEN Caught(s, "creatorError", r.error)
  ELSE IF Len(s.members) > 0
    THEN [s EXCEPT !.pc = "awaitMembers",
                   !.writes = Append(@, Write("click_members", MembersInsert(s.click, s.members)))]
  ELSE Succeeded(s)

\* The name-only revision ends here.
AfterCreatorNameOnly(s, r) ==
  IF r.kind # "ok" THEN CaughtNameOnly(s, "creatorError", r.error) ELSE SucceededNameOnly(s)

CreatorInsertReturns(i, r) ==
  /\ subs[i].pc = "awaitCreator"
  /\ subs' = [subs EXCEPT ![i] =
       IF revision = "invite"
         THEN AfterCreator([@ EXCEPT !.resp = Append(@, r.kind)], r)
         ELSE AfterCreatorNameOnly([@ EXCEPT !.resp = Append(@, r.kind)], r)]
  /\ IF r.kind = "ok"
       THEN click_members' = click_members \cup Range(subs[i].writes[2].rows)
       ELSE UNCHANGED click_members
  /\ IF subs'[i].outcome = "success" THEN Reset ELSE UNCHANGED ui
  /\ UNCHANGED <<profileVars, revision, user, users, clicks, nextId>>

\* The invitees' insert returns, and onSubmit runs to its end.
\* (Faulty variant: membersError is not looked at.)
AfterMembersIgnoringError(s, r) == Succeeded(s)

\* (Faulty variant: a failed invitee insert is issued once more.)
AfterMembersRetrying(s, r) ==
  IF r.kind # "ok" /\ Len(s.writes) < 4
    THEN [s EXCEPT !.writes = Append(@, s.writes[3])]
  ELSE IF r.kind # "ok" THEN Caught(s, "membersError", r.error)
  ELSE Succeeded(s)

AfterMembers(s, r) ==
  IF r.kind # "ok" THEN Caught(s, "membersError", r.error) ELSE Succeeded(s)

\* (Faulty variant: the dialog is reset after a failure as well.)
MembersInsertReturnsResetting(i, r) ==
  /\ subs[i].pc = "awaitMembers"
  /\ subs' = [subs EXCEPT ![i] = AfterMembers([@ EXCEPT !.resp = Append(@, r.kind)], r)]
  /\ IF r.kind = "ok"
       THEN click_members' = click_members \cup Range(subs[i].writes[3].rows)
       ELSE UNCHANGED click_members
  /\ Reset
  /\ UNCHANGED <<profileVars, revision, user, users, clicks, nextId>>

MembersInsertReturns(i, r) ==
  /\ subs[i].pc = "awaitMembers"
  /\ subs' = [subs EXCEPT ![i] = AfterMembers([@ EXCEPT !.resp = Append(@, r.kind)], r)]
  /\ IF r.kind = "ok"
       THEN click_members' = click_members \cup Range(subs[i].writes[3].rows)
       ELSE UNCHANGED click_members
  /\ IF subs'[i].outcome = "success" THEN Reset ELSE UNCHANGED ui
  /\ UNCHANGED <<profileVars, revision, user, users, clicks, nextId>>

Next ==
  \/ \E b \in BOOLEAN : SetOpen(b)
  \/ \E b \in BOOLEAN : SetCommandOpen(b)
  \/ \E d \in FormInputs : EditForm(d)
  \/ FetchUsers
  \/ \E u \in Users : OnSelect(u)
  \/ \E u \in Users : removeSelectedMember(u)
  \/ Cancel
  \/ \E u \in Users \cup {None} : AuthStateChange(u)
  \/ Submit
  \/ \E i \in 1..Len(subs) : \E r \in Responses \cup {NoRow} : ClickInsertReturns(i, r)
  \/ \E i \in 1..Len(subs) : \E r \in Responses : CreatorInsertReturns(i, r)
  \/ \E i \in 1..Len(subs) : \E r \in Responses : MembersInsertReturns(i, r)

Spec == Init /\ [][Next]_vars

\* Every request to the backend is answered in the end, by its rows or by an
\* error: the answer to whatever insert submission i awaits.
Answer(i) ==
  /\ i <= Len(subs)
  /\ \/ \E r \in Responses \cup {NoRow} : ClickInsertReturns(i, r)
     \/ \E r \in Responses : CreatorInsertReturns(i, r)
     \/ \E r \in Responses : MembersInsertReturns(i, r)

SpecAnswered == Init /\ [][Next]_vars /\ \A i \in 1..MaxSubmissions : WF_vars(Answer(i))

\* The dialog used by one signed-in user who invites nobody and submits the
\* form more than once, also while an earlier submission is in flight: the
\* submit button is not disabled during a submission.
NextResubmit ==
  \/ \E b \in BOOLEAN : SetOpen(b)
  \/ \E d \in FormInputs : EditForm(d)
  \/ Resubmit
  \/ \E i \in 1..Len(subs) : \E r \in Responses \cup {NoRow} : ClickInsertReturns(i, r)
  \/ \E i \in 1..Len(subs) : \E r \in Responses : CreatorInsertReturns(i, r)

SpecResubmit == Init /\ [][NextResubmit]_vars

\* The same user who also invites: submissions with invitees in flight
\* together.
NextConcurrent ==
  \/ \E b \in BOOLEAN : SetOpen(b)
  \/ \E b \in BOOLEAN : SetCommandOpen(b)
  \/ \E d \in FormInputs : EditForm(d)
  \/ FetchUsers
  \/ \E u \in Users : OnSelect(u)
  \/ \E u \in Users : removeSelectedMember(u)
  \/ Resubmit
  \/ \E i \in 1..Len(subs) : \E r \in Responses \cup {NoRow} : ClickInsertReturns(i, r)
  \/ \E i \in 1..Len(subs) : \E r \in Responses : CreatorInsertReturns(i, r)
  \/ \E i \in 1..Len(subs) : \E r \in Responses : MembersInsertReturns(i, r)

SpecConcurrent == Init /\ [][NextConcurrent]_vars

\* createClickSchema as a function: the form is submitted once with each of
\* SchemaInputs by a signed-in user, and the workflow runs on what the
\* resolver lets through.
InitSchema ==
  /\ revision = "invite"
  /\ user = "U1"
  /\ open = TRUE
  /\ commandOpen = FALSE
  /\ selectedMembers = <<>>
  /\ form \in SchemaInputs
  /\ users = {}
  /\ clicks = {}
  /\ click_members = {}
  /\ nextId = 1
  /\ subs = <<>>
  /\ ProfileInit("validated")

NextSchema ==
  \/ Submit
  \/ \E i \in 1..Len(subs) : \E r \in Responses \cup {NoRow} : ClickInsertReturns(i, r)
  \/ \E i \in 1..Len(subs) : \E r \in Responses : CreatorInsertReturns(i, r)

SpecSchema == InitSchema /\ [][NextSchema]_vars

\* ------------------------------------------------ the profile editor
\* if (isLoading) return the spinner: nothing can be clicked before the
\* query has answered once.
Loaded == ~(fetching /\ profile = NoProfile)

\* The answers of the backend to a request of the profile editor, whose catch
\* clauses do not look at the error.
Answers == {"ok", "error"}

\* One invocation of handleUpdate: the form and the user its closure holds,
\* the await it is suspended at or "done", the branch it ended in ("invalid",
\* "updateError", "success"), the answers it received, the writes it issued
\* and its toasts.
SaveOp(f, u, pc, outcome, writes, toasts) ==
  [form |-> f, user |-> u, pc |-> pc, outcome |-> outcome, resp |-> <<>>,
   writes |-> writes, toasts |-> toasts]

\* handleUpdate up to its await.
handleUpdate(f, u) ==
  IF ~profileSchema(f)
    THEN SaveOp(f, u, "done", "invalid", <<>>, <<ValidationErrorToast>>)
  ELSE SaveOp(f, u, "awaitUpdate", "running", <<ProfileUpdate(f, u)>>, <<>>)

\* The same of the first revision, which has no schema.
handleUpdatePlain(f, u) ==
  SaveOp(f, u, "awaitUpdate", "running", <<ProfileUpdate(PlainFields(f), u)>>, <<>>)

\* The button of the header while the page shows "Edit Profile".
ClickEdit ==
  /\ Loaded
  /\ ~isEditing
  /\ isEditing' = TRUE
  /\ UNCHANGED <<dialogVars, editor, uploading, formData, profile, fetching, profiles,
                 objects, nextUuid, saves, uploads>>

\* onChange of a field; the fields are inputs only while editing.
ChangeFields(f) ==
  /\ Loaded
  /\ isEditing
  /\ editor = "plain" => PlainInput(f)
  /\ formData # f
  /\ formData' = f
  /\ UNCHANGED <<dialogVars, editor, isEditing, uploading, profile, fetching, profiles,
                 objects, nextUuid, saves, uploads>>

\* The same button while it shows "Save Changes".
\* (Faulty variant: the editor is left at the click.)
ClickSaveOptimistic ==
  /\ Loaded
  /\ isEditing
  /\ Len(saves) < MaxSaves
  /\ saves' = Append(saves, IF editor = "plain" THEN handleUpdatePlain(formData, user)
                                                ELSE handleUpdate(formData, user))
  /\ isEditing' = FALSE
  /\ UNCHANGED <<dialogVars, editor, uploading, formData, profile, fetching, profiles,
                 objects, nextUuid, uploads>>

ClickSave ==
  /\ Loaded
  /\ isEditing
  /\ Len(saves) < MaxSaves
  /\ saves' = Append(saves, IF editor = "plain" THEN handleUpdatePlain(formData, user)
                                                ELSE handleUpdate(formData, user))
  /\ UNCHANGED <<dialogVars, editor, isEditing, uploading, formData, profile, fetching,
                 profiles, objects, nextUuid, uploads>>

\* handleUpdate after its await.
AfterUpdate(s, r) ==
  IF r # "ok"
    THEN [s EXCEPT !.pc = "done", !.outcome = "updateError",
                   !.toasts = Append(@, UpdateErrorToast)]
  ELSE [s EXCEPT !.pc = "done", !.outcome = "success",
                 !.toasts = Append(@, ProfileUpdatedToast)]

UpdateReturns(i, r) ==
  /\ saves[i].pc = "awaitUpdate"
  /\ saves' = [saves EXCEPT ![i] = AfterUpdate([@ EXCEPT !.resp = Append(@, r)], r)]
  /\ profiles' = IF r = "ok"
                   THEN [profiles EXCEPT ![saves[i].writes[1].id] =
                           Updated(@, saves[i].writes[1].set)]
                   ELSE profiles
  /\ isEditing' = IF saves'[i].outcome = "success" THEN FALSE ELSE isEditing
  /\ UNCHANGED <<dialogVars, editor, uploading, formData, profile, fetching, objects,
                 nextUuid, uploads>>

\* One invocation of handleAvatarUpload: the files of the event, the user of
\* its closure, the path it made, and pc, outcome ("noFile", "uploadError",
\* "updateError", "success"), resp, writes and toasts as above.
NoPath == [folder |-> None, uuid |-> 0, ext |-> ""]

UploadOp(files, u, path, pc, outcome, writes, toasts) ==
  [files |-> files, user |-> u, path |-> path, pc |-> pc, outcome |-> outcome,
   resp |-> <<>>, writes |-> writes, toasts |-> toasts]

\* handleAvatarUpload up to its first await.
handleAvatarUpload(files, u, uuid) ==
  IF files = NoFile
    THEN UploadOp(files, u, NoPath, "done", "noFile", <<>>, <<AvatarErrorToast>>)
  ELSE UploadOp(files, u, FilePath(u, uuid, files), "awaitUpload", "running",
                <<AvatarUpload(FilePath(u, uuid, files))>>, <<>>)

\* onChange of the file input, which the upload button opens; the button is
\* disabled while an upload runs.  The first revision has neither.
ChooseFile(files) ==
  /\ Loaded
  /\ editor = "validated"
  /\ ~uploading
  /\ Len(uploads) < MaxUploads
  /\ uploads' = Append(uploads, handleAvatarUpload(files, user, nextUuid))
  /\ uploading' = (files # NoFile)
  /\ nextUuid' = IF files # NoFile THEN nextUuid + 1 ELSE nextUuid
  /\ UNCHANGED <<dialogVars, editor, isEditing, formData, profile, fetching, profiles,
                 objects, saves>>

\* The bucket after an upload to a path.
\* (Faulty variant: the new object takes the place of the user's earlier ones.)
StoredReplacing(objs, path) == {o \in objs : o.folder # path.folder} \cup {path}

Stored(objs, path) == objs \cup {path}

\* handleAvatarUpload after its first await.
\* (Faulty variant: uploadError is not looked at.)
AfterUploadIgnoringError(s, r) ==
  [s EXCEPT !.pc = "awaitAvatarUpdate",
            !.writes = Append(@, [target |-> "profiles",
                                  set |-> [avatar_url |-> PublicUrl(s.path)],
                                  id |-> s.user])]

AfterUpload(s, r) ==
  IF r # "ok"
    THEN [s EXCEPT !.pc = "done", !.outcome = "uploadError",
                   !.toasts = Append(@, AvatarErrorToast)]
  ELSE [s EXCEPT !.pc = "awaitAvatarUpdate",
                 !.writes = Append(@, ProfileUpdate([avatar_url |-> PublicUrl(s.path)],
                                                    s.user))]

UploadReturns(i, r) ==
  /\ uploads[i].pc = "awaitUpload"
  /\ uploads' = [uploads EXCEPT ![i] = AfterUpload([@ EXCEPT !.resp = Append(@, r)], r)]
  /\ objects' = IF r = "ok" THEN Stored(objects, uploads[i].path) ELSE objects
  /\ uploading' = IF uploads'[i].pc = "done" THEN FALSE ELSE uploading
  /\ UNCHANGED <<dialogVars, editor, isEditing, formData, profile, fetching, profiles,
                 nextUuid, saves>>

\* handleAvatarUpload after its second await: on success the toast and
\* refetch(); setUploading(false) in either case.
AfterAvatarUpdate(s, r) ==
  IF r # "ok"
    THEN [s EXCEPT !.pc = "done", !.outcome = "updateError",
                   !.toasts = Append(@, AvatarErrorToast)]
  ELSE [s EXCEPT !.pc = "done", !.outcome = "success",
                 !.toasts = Append(@, AvatarUpdatedToast)]

AvatarUpdateReturns(i, r) ==
  /\ uploads[i].pc = "awaitAvatarUpdate"
  /\ uploads' = [uploads EXCEPT ![i] = AfterAvatarUpdate([@ EXCEPT !.resp = Append(@, r)], r)]
  /\ profiles' = IF r = "ok"
                   THEN [profiles EXCEPT ![uploads[i].writes[2].id] =
                           Updated(@, uploads[i].writes[2].set)]
                   ELSE profiles
  /\ fetching' = IF r = "ok" THEN TRUE ELSE fetching
  /\ uploading' = FALSE
  /\ UNCHANGED <<dialogVars, editor, isEditing, formData, profile, objects, nextUuid, saves>>

\* queryFn returns the user's row: it becomes the data of the query, and
\* setFormData puts its fields into the form.
FetchReturns ==
  /\ fetching
  /\ fetching' = FALSE
  /\ profile' = profiles[user]
  /\ formData' = IF editor = "plain" THEN FormOfPlain(profiles[user])
                                     ELSE FormOf(profiles[user])
  /\ UNCHANGED <<dialogVars, editor, isEditing, uploading, profiles, objects, nextUuid,
                 saves, uploads>>

\* queryFn throws the error of the select.
FetchFails ==
  /\ fetching
  /\ fetching' = FALSE
  /\ UNCHANGED <<dialogVars, editor, isEditing, uploading, formData, profile, profiles,
                 objects, nextUuid, saves, uploads>>

InitProfile ==
  /\ revision = "invite"
  /\ user = "U1"
  /\ open = FALSE
  /\ commandOpen = FALSE
  /\ selectedMembers = <<>>
  /\ form = DefaultValues
  /\ users = {}
  /\ clicks = {}
  /\ click_members = {}
  /\ nextId = 1
  /\ subs = <<>>
  /\ \E e \in Editors : ProfileInit(e)

NextProfile ==
  \/ ClickEdit
  \/ \E f \in ProfileInputs : ChangeFields(f)
  \/ ClickSave
  \/ \E i \in 1..Len(saves) : \E r \in Answers : UpdateReturns(i, r)
  \/ \E files \in FileNames \cup {NoFile} : ChooseFile(files)
  \/ \E i \in 1..Len(uploads) : \E r \in Answers : UploadReturns(i, r)
  \/ \E i \in 1..Len(uploads) : \E r \in Answers : AvatarUpdateReturns(i, r)
  \/ FetchReturns
  \/ FetchFails

SpecProfile == InitProfile /\ [][NextProfile]_vars

TypeOK ==
  /\ revision \in Revisions
  /\ user \in Users \cup {None}
  /\ open \in BOOLEAN
  /\ users \subseteq Users
  /\ Len(subs) <= MaxSubmissions

\* ------------------------------------------------------------ properties
\* The rows a submission has produced: the Group row with the identifier
\* its first insert returned, and the Membership rows that reference it.
GroupsOf(s) == {c \in clicks : s.click # 0 /\ c.id = s.click}
MembersOf(s, role) ==
  {m \in click_members : s.click # 0 /\ m.click_id = s.click /\ m.role = role}

\* The writes of a submission to the Membership table.
MembershipWrites(s) == {k \in 1..Len(s.writes) : s.writes[k].table = "click_members"}

\* Every stored row was written by a submission whose Group insert succeeded.
RowsAccounted ==
  /\ \A c \in clicks : \E j \in 1..Len(subs) :
       subs[j].click = c.id /\ subs[j].resp # <<>> /\ subs[j].resp[1] = "ok"
  /\ \A m \in click_members : \E j \in 1..Len(subs) :
       subs[j].click = m.click_id /\ Len(subs[j].resp) >= 2 /\ subs[j].resp[2] = "ok"

\* The submission ended with exactly one toast, and it is a destructive one.
FailureReported(s) ==
  /\ s.pc = "done"
  /\ s.outcome # "success"
  /\ Len(s.toasts) = 1
  /\ s.toasts[1].variant = "destructive"
  /\ s.toasts[1] \notin {SuccessToast, SuccessToastNameOnly}

\* C1: a submission of valid values by a signed-in user whose Group insert
\* and admin-Membership insert both succeed has produced exactly one Group
\* row, carrying the submitted name and the caller as created_by, and exactly
\* one admin Membership row, which references that Group's generated
\* identifier and the caller; no submission ever has more than one of either.
C1_OneGroupOneAdmin ==
  \A i \in 1..Len(subs) :
    LET s == subs[i] IN
      /\ Cardinality(GroupsOf(s)) <= 1
      /\ Cardinality(MembersOf(s, "admin")) <= 1
      /\ (Len(s.resp) >= 2 /\ s.resp[1] = "ok" /\ s.resp[2] = "ok") =>
           /\ createClickSchema(s.data) /\ s.user \in Users
           /\ s.click # 0
           /\ Cardinality(GroupsOf(s)) = 1
           /\ \A c \in GroupsOf(s) : c.name = s.data.name /\ c.created_by = s.user
           /\ MembersOf(s, "admin") =
                {[click_id |-> s.click, user_id |-> s.user, role |-> "admin"]}

\* The scenario of the specification: no description, no schedule, nobody
\* invited; the workflow has ended in success.
C1_Witness ==
  \E i \in 1..Len(subs) :
    /\ subs[i].outcome = "success"
    /\ subs[i].members = <<>>
    /\ subs[i].data.description = Str(0)
    /\ \E c \in clicks : c.id = subs[i].click /\ c.created_by = subs[i].user
    /\ \E m \in click_members : m.click_id = subs[i].click /\ m.role = "admin"

\* C2: once no submission is in flight, every Group row has at least one
\* Membership row of role admin.
C2_EveryGroupHasAdmin ==
  (\A i \in 1..Len(subs) : subs[i].pc = "done") =>
    \A c \in clicks : \E m \in click_members : m.click_id = c.id /\ m.role = "admin"

\* C3: when the Group insert succeeded and the admin-Membership insert
\* failed, the workflow has ended; it issued the two inserts and nothing
\* else (no delete, no invitee insert), the Group row exists, no Membership
\* row references it, and the one toast shown is destructive, not the
\* success toast.
C3_AdminFailureLeavesGroup ==
  \A i \in 1..Len(subs) :
    LET s == subs[i] IN
      (Len(s.resp) >= 2 /\ s.resp[1] = "ok" /\ s.resp[2] = "error") =>
        /\ FailureReported(s)
        /\ s.resp = <<"ok", "error">>
        /\ Len(s.writes) = 2
        /\ s.writes[1].table = "clicks"
        /\ s.writes[2].rows = <<[click_id |-> s.click, user_id |-> s.user, role |-> "admin"]>>
        /\ Cardinality(GroupsOf(s)) = 1
        /\ MembersOf(s, "admin") = {}
        /\ MembersOf(s, "member") = {}

\* The admin insert has failed for a submission that had invitees.
C3_Witness ==
  \E i \in 1..Len(subs) :
    /\ subs[i].resp = <<"ok", "error">>
    /\ Len(subs[i].members) > 0
    /\ \E c \in clicks : c.id = subs[i].click

\* The toasts a submission shows when its Group insert fails.
TotalFailureToasts(s) ==
  {(IF revision = "invite"
      THEN AfterClick(HandleSubmit(s.data, s.user, s.members), r, 0)
      ELSE AfterClickNameOnly(HandleSubmitNameOnly(s.data, s.user), r, 0)).toasts[1] :
     r \in (Responses \cup {NoRow}) \ {[kind |-> "ok", error |-> NoError]}}

\* C4: the toast of a submission that failed after its Group row was created
\* is none of the toasts it shows when the Group insert itself fails.
C4_PartialFailureDistinct ==
  \A i \in 1..Len(subs) :
    LET s == subs[i] IN
      (s.pc = "done" /\ s.outcome \in {"creatorError", "membersError"}) =>
        s.toasts[1] \notin TotalFailureToasts(s)

\* C5: when the Group insert returns an error or no row, the workflow has
\* ended: the Group insert is the only write it issued, no row is stored for
\* it, every stored row belongs to a submission whose insert succeeded, and
\* one destructive toast is shown.
C5_GroupFailureAborts ==
  /\ RowsAccounted
  /\ \A i \in 1..Len(subs) :
       LET s == subs[i] IN
         (s.resp # <<>> /\ s.resp[1] \in {"error", "norow"}) =>
           /\ FailureReported(s)
           /\ Len(s.resp) = 1
           /\ Len(s.writes) = 1
           /\ MembershipWrites(s) = {}
           /\ s.click = 0
           /\ GroupsOf(s) = {}

C5_Witness ==
  \E i \in 1..Len(subs) :
    /\ subs[i].resp = <<"error">>
    /\ subs[i].outcome = "clickError"
    /\ Len(subs[i].members) > 0

\* C6: a submission whose name is shorter than 3 or longer than 50 characters
\* is rejected by the resolver: onSubmit is not entered, no write is issued,
\* no response is awaited and no row is stored for it.
C6_InvalidNameNoWrites ==
  \A i \in 1..Len(subs) :
    LET s == subs[i] IN
      (s.data.name.v < NameMin \/ s.data.name.v > NameMax) =>
        /\ s.pc = "done"
        /\ s.outcome = "invalid"
        /\ s.writes = <<>>
        /\ s.resp = <<>>
        /\ GroupsOf(s) = {}

\* The name "ab" is submitted.
C6_Witness ==
  \E i \in 1..Len(subs) :
    /\ subs[i].data.name = Str(2)
    /\ subs[i].outcome = "invalid"
    /\ subs[i].user \in Users

\* C7: a submission of valid values made while no user is signed in ends at
\* once with the destructive "must be logged in" toast; it issues no write
\* and no row is stored for it.
C7_UnauthenticatedNoWrites ==
  \A i \in 1..Len(subs) :
    LET s == subs[i] IN
      (s.user = None /\ createClickSchema(s.data)) =>
        /\ FailureReported(s)
        /\ s.outcome = "unauthenticated"
        /\ s.toasts = IF revision = "invite" THEN <<UnauthenticatedToast>>
                                             ELSE <<CatchToastNameOnly(NotLoggedIn)>>
        /\ s.writes = <<>>
        /\ s.resp = <<>>
        /\ GroupsOf(s) = {}

C7_Witness ==
  \E i \in 1..Len(subs) :
    /\ subs[i].user = None
    /\ subs[i].outcome = "unauthenticated"
    /\ createClickSchema(subs[i].data)

\* C8: in the Membership writes of a submission the caller appears only in
\* the admin row: no row of the invitee batch carries the caller's id.
C8_CallerNotInvited ==
  \A i \in 1..Len(subs) :
    LET s == subs[i] IN
      \A k \in MembershipWrites(s) :
        \A j \in 1..Len(s.writes[k].rows) :
          s.writes[k].rows[j].user_id = s.user => s.writes[k].rows[j].role = "admin"

\* C9 as stated: every submission that has ended, whatever its path, has
\* shown exactly one toast.
C9_OneToastOnEveryPath ==
  \A i \in 1..Len(subs) : subs[i].pc = "done" => Len(subs[i].toasts) = 1

\* C9 as amended: a submission that entered onSubmit shows exactly one toast,
\* when it ends and not before; a submission rejected by validation shows
\* none.
C9_OneToastPerOnSubmit ==
  \A i \in 1..Len(subs) :
    LET s == subs[i] IN
      Len(s.toasts) = IF s.pc = "done" /\ s.outcome # "invalid" THEN 1 ELSE 0

\* A workflow has ended in its catch clause.
C9_Witness ==
  \E i \in 1..Len(subs) :
    /\ subs[i].pc = "done"
    /\ subs[i].outcome \in {"clickError", "creatorError", "membersError"}
    /\ Len(subs[i].toasts) = 1

\* C10: when the invitee insert fails after the two earlier inserts
\* succeeded, the workflow has ended with one destructive toast; it issued
\* the three inserts and nothing else, and the Group row and the admin
\* Membership row are stored.
C10_InviteeFailureKeepsRows ==
  \A i \in 1..Len(subs) :
    LET s == subs[i] IN
      (Len(s.resp) >= 3 /\ s.resp[3] = "error") =>
        /\ FailureReported(s)
        /\ s.resp = <<"ok", "ok", "error">>
        /\ Len(s.writes) = 3
        /\ Cardinality(GroupsOf(s)) = 1
        /\ MembersOf(s, "admin") =
             {[click_id |-> s.click, user_id |-> s.user, role |-> "admin"]}

C10_Witness ==
  \E i \in 1..Len(subs) :
    /\ subs[i].resp = <<"ok", "ok", "error">>
    /\ subs[i].outcome = "membersError"
    /\ \E c \in clicks : c.id = subs[i].click
    /\ \E m \in click_members : m.click_id = subs[i].click /\ m.role = "admin"

\* The tables the three inserts of onSubmit go to, in the order of the code.
WriteOrder == <<"clicks", "click_members", "click_members">>

\* C11: the writes of one submission are issued in the order Group insert,
\* admin-Membership insert, invitee insert; a write is issued only after
\* every earlier write of the submission has been answered without error;
\* and the submission has one write unanswered while it is suspended at an
\* await, none once it has ended.
C11_WritesInOrder ==
  \A i \in 1..Len(subs) :
    LET s == subs[i] IN
      /\ Len(s.writes) <= 3
      /\ \A k \in 1..Len(s.writes) : s.writes[k].table = WriteOrder[k]
      /\ Len(s.writes) >= 2 =>
           /\ Len(s.writes[2].rows) = 1
           /\ s.writes[2].rows[1].role = "admin"
      /\ Len(s.writes) >= 3 =>
           \A j \in 1..Len(s.writes[3].rows) : s.writes[3].rows[j].role = "member"
      /\ \A k \in 1..Len(s.writes) - 1 : k <= Len(s.resp) /\ s.resp[k] = "ok"
      /\ Len(s.writes) - Len(s.resp) = IF s.pc = "done" THEN 0 ELSE 1

\* The third insert is in flight, after the first two were answered.
C11_Witness ==
  \E i \in 1..Len(subs) :
    /\ subs[i].pc = "awaitMembers"
    /\ Len(subs[i].writes) = 3
    /\ subs[i].resp = <<"ok", "ok">>

\* The values of a submission violate a constraint of createClickSchema other
\* than the name's: the description is longer than 500 characters, the
\* frequency is none of daily, weekly, monthly, or the day, as a number, is
\* not within 1..31.
ViolatesOptionalField(d) ==
  \/ d.description.t = "string" /\ d.description.v > DescriptionMax
  \/ d.schedule_frequency \notin Frequencies \cup {"undefined"}
  \/ d.schedule_day.t \in {"number", "numstr"} /\ d.schedule_day.v \notin DayMin..DayMax
  \/ d.schedule_day.t \in {"null", "nan", "string"}

\* C12: a submission whose values violate the constraint on description,
\* schedule_frequency or schedule_day is rejected by the resolver: it issues
\* no write, awaits no response and no row is stored; and every submission
\* that has issued a write carries values that satisfy all constraints.
C12_InvalidFieldsNoWrites ==
  \A i \in 1..Len(subs) :
    LET s == subs[i] IN
      /\ ViolatesOptionalField(s.data) =>
           /\ s.pc = "done"
           /\ s.outcome = "invalid"
           /\ s.writes = <<>>
           /\ s.resp = <<>>
           /\ clicks = {}
           /\ click_members = {}
      /\ s.writes # <<>> =>
           /\ ~ViolatesOptionalField(s.data)
           /\ s.data.name.v \in NameMin..NameMax

\* A submission with schedule_day 32 and nothing else wrong has been rejected.
C12_Witness ==
  \E i \in 1..Len(subs) :
    /\ subs[i].data.schedule_day = Num(DayMax + 1)
    /\ subs[i].data.description = Str(DescriptionMax)
    /\ subs[i].data.schedule_frequency = "weekly"
    /\ subs[i].outcome = "invalid"

\* A field of the insert holds the supplied value, or null where the supplied
\* value is absent or empty.
SuppliedOrNull(given, sent) ==
  IF given.t \in {"undefined", "null"} \/ given = Str(0) THEN sent = JsNull ELSE sent = given

SuppliedOrNullStr(given, sent) ==
  IF given \in {"undefined", ""} THEN sent = "null" ELSE sent = given

\* null, or a number within 1..31.
NullOrDay(x) == x = JsNull \/ (x.t = "number" /\ x.v \in DayMin..DayMax)

\* C20: the object of the Group insert carries the caller as created_by and,
\* in description, schedule_frequency, schedule_day and schedule_time, the
\* supplied value (for schedule_day the number it spells) or null where
\* nothing or the empty string was supplied, never undefined; its
\* schedule_day is null or a number within 1..31, and so is that of every
\* stored Group row.
C20_OptionalFieldsOrNull ==
  /\ \A i \in 1..Len(subs) :
       LET s == subs[i] IN
         s.writes # <<>> =>
           LET p == s.writes[1].rows[1] IN
             /\ s.user \in Users
             /\ p.created_by = s.user
             /\ p.name = s.data.name
             /\ SuppliedOrNull(s.data.description, p.description)
             /\ SuppliedOrNullStr(s.data.schedule_frequency, p.schedule_frequency)
             /\ SuppliedOrNullStr(s.data.schedule_time, p.schedule_time)
             /\ IF s.data.schedule_day.t = "undefined"
                  THEN p.schedule_day = JsNull
                  ELSE p.schedule_day = Num(s.data.schedule_day.v)
             /\ NullOrDay(p.schedule_day)
  /\ \A c \in clicks :
       /\ c.created_by \in Users
       /\ c.description.t \in {"string", "null"}
       /\ c.schedule_frequency \in Frequencies \cup {"null"}
       /\ c.schedule_time # "undefined"
       /\ NullOrDay(c.schedule_day)

\* A Group row is stored whose day was supplied as the string "31" and whose
\* description, frequency and time were left empty.
C20_Witness ==
  \E c \in clicks :
    /\ c.schedule_day = Num(DayMax)
    /\ c.description = JsNull
    /\ c.schedule_time = "null"
    /\ c.schedule_frequency = "null"
    /\ \E i \in 1..Len(subs) :
         /\ subs[i].click = c.id
         /\ subs[i].data.schedule_day = NumStr(DayMax)
         /\ subs[i].data.schedule_time = ""

\* C14: the step in which a submission ends in success closes the dialog,
\* empties the list of selected invitees and resets the form to its default
\* values; the Group row of that submission is stored under an identifier
\* the backend generated, the insert having supplied none.
C14_SuccessResetsDialog ==
  [][\A i \in 1..Len(subs) :
       (subs[i].pc # "done" /\ subs'[i].pc = "done" /\ subs'[i].outcome = "success") =>
         /\ open' = FALSE
         /\ selectedMembers' = <<>>
         /\ form' = DefaultValues
         /\ "id" \notin DOMAIN subs'[i].writes[1].rows[1]
         /\ subs'[i].click \in 1..(nextId' - 1)
         /\ \E c \in clicks' : c.id = subs'[i].click /\ c.name = subs'[i].data.name]_vars

\* A submission that had an invitee and a filled form has ended in success,
\* and the dialog is closed, the selection empty and the form at its defaults.
C14_Witness ==
  \E i \in 1..Len(subs) :
    /\ subs[i].outcome = "success"
    /\ Len(subs[i].members) > 0
    /\ subs[i].data # DefaultValues
    /\ open = FALSE
    /\ selectedMembers = <<>>
    /\ form = DefaultValues
    /\ \E c \in clicks : c.id = subs[i].click

\* The toasts the catch clause can show: for an error object of the backend
\* (an Error instance, as a thrown transport error is, or a plain object) and
\* for the TypeError of reading the id of no row.
CatchToasts ==
  {IF revision = "invite" THEN CatchToast(e) ELSE CatchToastNameOnly(e) :
     e \in ErrorValues \cup {NullDereference, NotLoggedIn}}

\* The branches onSubmit returns from.
Outcomes ==
  {"invalid", "unauthenticated", "clickError", "creatorError", "membersError", "success"}

\* C15: a submission to which the backend answered with an error, or with
\* no row, has ended in the catch clause of onSubmit with exactly one toast,
\* the one the catch clause makes of that error; and every submission that
\* has ended returned from onSubmit, none by an error leaving it.
C15_ErrorsCaught ==
  \A i \in 1..Len(subs) :
    LET s == subs[i] IN
      /\ s.pc = "done" => s.outcome \in Outcomes
      /\ s.pc # "done" => s.outcome = "running"
      /\ (s.resp # <<>> /\ s.resp[Len(s.resp)] # "ok") =>
           /\ s.pc = "done"
           /\ s.outcome = <<"clickError", "creatorError", "membersError">>[Len(s.resp)]
           /\ Len(s.toasts) = 1
           /\ s.toasts[1] \in CatchToasts
           /\ s.toasts[1].variant = "destructive"
           /\ s.resp[Len(s.resp)] = "norow" =>
                s.toasts[1].description = NullDereference.message

\* The Group insert returned neither a row nor an error, and the TypeError of
\* reading its id was caught.
C15_Witness ==
  \E i \in 1..Len(subs) :
    /\ subs[i].resp = <<"norow">>
    /\ subs[i].pc = "done"
    /\ subs[i].toasts[1].description = NullDereference.message

\* The submissions whose k-th write was answered without error.
Answered(k) == {i \in 1..Len(subs) : Len(subs[i].resp) >= k /\ subs[i].resp[k] = "ok"}

\* C13: no write is issued a second time: a submission issues at most one
\* Group insert and one admin insert, and none after one of its writes
\* failed, so the stored rows are exactly those of the answered inserts.
\* Every submission whose Group insert succeeded has a Group row of its own,
\* also when an earlier submission of the same values by the same user left
\* one behind; and when a submission failed at its admin insert and another
\* of the same values succeeded, both Group rows are stored, alike in name
\* and creator, and the first has no admin Membership.
C13_ResubmissionDuplicates ==
  /\ \A i \in 1..Len(subs) :
       LET s == subs[i] IN
         /\ Cardinality({k \in 1..Len(s.writes) : s.writes[k].table = "clicks"}) <= 1
         /\ Cardinality({k \in 1..Len(s.writes) :
               s.writes[k].table = "click_members" /\ s.writes[k].rows[1].role = "admin"}) <= 1
         /\ (s.pc = "done" /\ s.outcome # "success") => Len(s.writes) = Len(s.resp)
  /\ Cardinality(clicks) = Cardinality(Answered(1))
  /\ Cardinality(click_members) = Cardinality(Answered(2))
  /\ \A i \in Answered(1) : \A j \in Answered(1) : i # j => subs[i].click # subs[j].click
  /\ \A i \in 1..Len(subs) : \A j \in 1..Len(subs) :
       (/\ subs[i].resp = <<"ok", "error">>
        /\ subs[j].outcome = "success"
        /\ subs[j].data = subs[i].data
        /\ subs[j].user = subs[i].user) =>
          /\ Cardinality(GroupsOf(subs[i]) \cup GroupsOf(subs[j])) = 2
          /\ \A c \in GroupsOf(subs[i]) \cup GroupsOf(subs[j]) :
               c.name = subs[i].data.name /\ c.created_by = subs[i].user
          /\ MembersOf(subs[i], "admin") = {}
          /\ Cardinality(MembersOf(subs[j], "admin")) = 1

\* The first submission failed at its admin insert, and the second, of the
\* same values and made after the first had ended, has succeeded.
C13_Witness ==
  /\ Len(subs) = 2
  /\ subs[1].resp = <<"ok", "error">>
  /\ subs[2].outcome = "success"
  /\ subs[2].data = subs[1].data
  /\ subs[1].click < subs[2].click
  /\ Cardinality(clicks) = 2
  /\ Cardinality(click_members) = 1

\* A text that is neither empty nor a URL.
NotUrl(x) == x.t = "string" /\ x.v > 0

\* The form breaks a rule of the profile schema: full_name of 2..100 and
\* username of 3..50 characters, bio of at most 500, location of at most 100,
\* website and the three links each empty or a URL.
ProfileInvalid(f) ==
  \/ f.full_name.v \notin FullNameMin..FullNameMax
  \/ f.username.v \notin UsernameMin..UsernameMax
  \/ f.bio.v > BioMax
  \/ f.location.v > LocationMax
  \/ NotUrl(f.website)
  \/ NotUrl(f.social_links.twitter)
  \/ NotUrl(f.social_links.github)
  \/ NotUrl(f.social_links.linkedin)

\* An invocation of handleUpdate stopped at validation: no write, and the
\* validation toast.
StoppedAtValidation(s) ==
  /\ s.pc = "done"
  /\ s.outcome = "invalid"
  /\ s.writes = <<>>
  /\ s.resp = <<>>
  /\ s.toasts = <<ValidationErrorToast>>

\* An invocation of handleUpdate issued one write, an update of the fields
\* values on the row of the caller.
WroteOnce(s, values) ==
  /\ s.user = user
  /\ s.writes = <<[target |-> "profiles", set |-> values, id |-> s.user]>>
  /\ \A u \in Users \ {s.user} : profiles[u] = NewProfileRow

\* C16 as stated: every invocation of handleUpdate whose form breaks a rule
\* of the schema issues no write and shows the validation toast, and every
\* other one issues exactly one update, of the form, on the caller's row.
C16_ValidatesBeforeWrite ==
  \A i \in 1..Len(saves) :
    IF ProfileInvalid(saves[i].form)
      THEN StoppedAtValidation(saves[i])
      ELSE WroteOnce(saves[i], saves[i].writes[1].set)

\* C16 as amended: that holds of the revisions of the editor that have the
\* schema, where the update carries the parsed form; the first revision
\* validates nothing, and every invocation of its handleUpdate issues exactly
\* one update, of its three fields as they are, on the caller's row.
C16_ValidatesWhereSchema ==
  \A i \in 1..Len(saves) :
    IF editor = "validated"
      THEN IF ProfileInvalid(saves[i].form)
             THEN StoppedAtValidation(saves[i])
             ELSE WroteOnce(saves[i], saves[i].form)
      ELSE WroteOnce(saves[i], PlainFields(saves[i].form))

\* A form whose LinkedIn link is no URL was stopped at validation.
C16_Witness ==
  \E i \in 1..Len(saves) :
    /\ editor = "validated"
    /\ saves[i].form.social_links.linkedin = Str(5)
    /\ saves[i].outcome = "invalid"
    /\ saves[i].toasts = <<ValidationErrorToast>>

\* C17: the editor goes from editing to viewing only in the step in which an
\* update of handleUpdate is answered without error; the step in which an
\* update fails, and the click on Save itself, whether validation stops it or
\* the update is issued, leave the editor in editing mode and the form
\* values as they are.
C17_LeavesEditingOnSuccessOnly ==
  [][/\ (isEditing /\ ~isEditing') =>
          \E i \in 1..Len(saves) :
            /\ saves[i].pc = "awaitUpdate"
            /\ saves'[i].outcome = "success"
            /\ saves'[i].resp = <<"ok">>
     /\ \A i \in 1..Len(saves) :
          (saves[i].pc # "done" /\ saves'[i].outcome = "updateError") =>
            isEditing' = isEditing /\ formData' = formData
     /\ Len(saves') > Len(saves) =>
          isEditing /\ isEditing' /\ formData' = formData]_vars

\* An update has failed, and the editor is in editing mode with the form
\* that was saved.
C17_Witness ==
  \E i \in 1..Len(saves) :
    /\ saves[i].resp = <<"error">>
    /\ saves[i].outcome = "updateError"
    /\ isEditing
    /\ formData = saves[i].form

\* The invocations of handleAvatarUpload that ended in success.
Replaced == {i \in 1..Len(uploads) : uploads[i].outcome = "success"}

\* C18: handleAvatarUpload issues the update of the profile only after the
\* upload was answered without error, and then with the public URL of the
\* uploaded path on the caller's row; with no file it issues nothing, and
\* after a failed upload nothing more.  The path is the caller's id, a fresh
\* identifier and the part of the file name after its last dot.  The
\* avatar_url of the caller's row is the public URL of the path of the last
\* invocation that succeeded, null if there is none.
C18_AvatarAfterUpload ==
  /\ \A i \in 1..Len(uploads) :
       LET s == uploads[i] IN
         /\ s.files = NoFile => s.writes = <<>> /\ s.outcome = "noFile"
         /\ (s.resp # <<>> /\ s.resp[1] = "error") =>
              Len(s.writes) = 1 /\ s.outcome = "uploadError"
         /\ s.writes # <<>> =>
              /\ s.writes[1] = [target |-> "avatars", path |-> s.path]
              /\ s.path.folder = s.user
              /\ s.user = user
              /\ s.path.ext = s.files[Len(s.files)]
              /\ \A j \in 1..Len(uploads) : j # i => uploads[j].path.uuid # s.path.uuid
         /\ Len(s.writes) >= 2 =>
              /\ s.resp[1] = "ok"
              /\ s.path \in objects
              /\ s.writes[2] = [target |-> "profiles",
                                set |-> [avatar_url |-> PublicUrl(s.path)], id |-> s.user]
         /\ Len(s.writes) <= 2
  /\ profiles[user].avatar_url =
       IF Replaced = {} THEN JsNull
       ELSE PublicUrl(uploads[CHOOSE i \in Replaced : \A j \in Replaced : j <= i].path)

\* The avatar was replaced once, and a second upload has failed: the row
\* still refers to the first object.
C18_Witness ==
  /\ Len(uploads) = 2
  /\ uploads[1].outcome = "success"
  /\ uploads[2].resp = <<"error">>
  /\ uploads[2].files = <<"avatar">>
  /\ profiles[user].avatar_url = PublicUrl(uploads[1].path)

\* C19: the objects of the bucket are exactly the paths of the uploads that
\* were answered without error, each of them for good: also the object of an
\* avatar that has since been replaced, and the object of an invocation
\* whose update of the profile failed, to which no row refers.
C19_ObjectsOnlyGrow ==
  /\ objects = {uploads[i].path : i \in {j \in 1..Len(uploads) :
                                         uploads[j].resp # <<>> /\ uploads[j].resp[1] = "ok"}}
  /\ \A i \in 1..Len(uploads) :
       uploads[i].resp = <<"ok", "error">> =>
         /\ uploads[i].path \in objects
         /\ \A u \in Users : profiles[u].avatar_url # PublicUrl(uploads[i].path)
  /\ \A i \in Replaced : \A j \in Replaced :
       i < j => /\ uploads[i].path \in objects
                /\ profiles[user].avatar_url # PublicUrl(uploads[i].path)

\* The avatar was replaced twice: the object of the first is still stored,
\* and the row refers to the second.
C19_Witness ==
  /\ Len(uploads) = 2
  /\ uploads[1].outcome = "success"
  /\ uploads[2].outcome = "success"
  /\ Cardinality(objects) = 2
  /\ profiles[user].avatar_url = PublicUrl(uploads[2].path)

\* The invitee batch of a submission: none when it has no invitees, and
\* otherwise, once the creator's insert was answered without error, one
\* insert of one role-member row per invitee, in their order, all on the
\* Group of the submission.
OneBatch(s) ==
  /\ Cardinality({k \in 1..Len(s.writes) :
        s.writes[k].table = "click_members" /\ s.writes[k].rows[1].role = "member"}) <= 1
  /\ s.members = <<>> => Len(s.writes) <= 2
  /\ (s.members # <<>> /\ Len(s.resp) >= 2 /\ s.resp[2] = "ok") =>
       /\ Len(s.writes) = 3
       /\ s.click # 0
       /\ s.writes[3].rows =
            [k \in 1..Len(s.members) |->
               [click_id |-> s.click, user_id |-> s.members[k], role |-> "member"]]

\* C21: a submission takes the invitees selected at the moment the form is
\* submitted and keeps them; it issues at most one invitee insert, none for
\* an empty list, and the batch has exactly one role-member row per invitee
\* of that moment on the Group the submission created, whatever is selected
\* or removed while its requests are in flight.
C21_OneBatchOfSubmittedInvitees ==
  [][/\ Len(subs') > Len(subs) => subs'[Len(subs')].members = selectedMembers
     /\ \A i \in 1..Len(subs) : subs'[i].members = subs[i].members
     /\ \A i \in 1..Len(subs') : OneBatch(subs'[i])]_vars

\* The batch is in flight with the invitee of the submission, who has been
\* removed from the selection since.
C21_Witness ==
  \E i \in 1..Len(subs) :
    /\ subs[i].pc = "awaitMembers"
    /\ Len(subs[i].members) > 0
    /\ selectedMembers = <<>>
    /\ subs[i].writes[3].rows[1].user_id = subs[i].members[1]

\* No user occurs twice in a list.
NoDuplicates(seq) == \A j \in 1..Len(seq) : \A k \in 1..Len(seq) : seq[j] = seq[k] => j = k

\* C22: no user is twice in the list of selected invitees, nor in the
\* invitees or the invitee batch of a submission.  A step changes the list
\* only by appending one user who was not in it, by removing every entry,
\* that is the one entry, of one user, or by emptying it; selecting a user
\* already in it leaves it as it is.
C22_SelectionHasNoDuplicates ==
  [][/\ NoDuplicates(selectedMembers')
     /\ \A u \in Range(selectedMembers) : SelectAppend(selectedMembers, u) = selectedMembers
     /\ \/ selectedMembers' = selectedMembers
        \/ selectedMembers' = <<>>
        \/ \E u \in Users \ Range(selectedMembers) :
             selectedMembers' = Append(selectedMembers, u)
        \/ \E u \in Range(selectedMembers) :
             /\ Len(selectedMembers') = Len(selectedMembers) - 1
             /\ Range(selectedMembers') = Range(selectedMembers) \ {u}
     /\ \A i \in 1..Len(subs') :
          /\ NoDuplicates(subs'[i].members)
          /\ \A k \in MembershipWrites(subs'[i]) :
               NoDuplicates([j \in 1..Len(subs'[i].writes[k].rows) |->
                               subs'[i].writes[k].rows[j].user_id])]_vars

\* A user is selected while the picker is open again: selecting that user
\* once more is possible and must not add an entry.
C22_Witness ==
  /\ commandOpen
  /\ Len(selectedMembers) = 1
  /\ selectedMembers[1] \in users

\* Every insert the code of a submission calls for was answered without
\* error: the Group's, the creator's and, with invitees, the batch.
AllInsertsSucceeded(s) ==
  /\ Len(s.resp) = IF s.members = <<>> THEN 2 ELSE 3
  /\ \A k \in 1..Len(s.resp) : s.resp[k] = "ok"

\* C25: a submission has shown the success toast if and only if all its
\* inserts succeeded; it then shows no other toast, and exactly one Group row
\* and exactly one admin Membership row, the caller's, are stored for it.
C25_SuccessIffAllInserts ==
  \A i \in 1..Len(subs) :
    LET s == subs[i] IN
      /\ (\E k \in 1..Len(s.toasts) : s.toasts[k] \in {SuccessToast, SuccessToastNameOnly})
           <=> AllInsertsSucceeded(s)
      /\ AllInsertsSucceeded(s) =>
           /\ s.toasts = <<IF revision = "invite" THEN SuccessToast ELSE SuccessToastNameOnly>>
           /\ Cardinality(GroupsOf(s)) = 1
           /\ Cardinality({k \in 1..Len(s.writes) : s.writes[k].table = "clicks"}) = 1
           /\ MembersOf(s, "admin") =
                {[click_id |-> s.click, user_id |-> s.user, role |-> "admin"]}

\* The success toast is shown after three inserts.
C25_Witness ==
  \E i \in 1..Len(subs) :
    /\ subs[i].resp = <<"ok", "ok", "ok">>
    /\ subs[i].toasts = <<SuccessToast>>
    /\ Cardinality(MembersOf(subs[i], "member")) = Len(subs[i].members)

\* C26: a submission runs for the user of the session at the moment the form
\* is submitted: that user is the created_by of its Group insert and the
\* user_id of its admin Membership insert, and of the rows stored for them,
\* whoever the user of the session is when the inserts are issued or
\* answered.
C26_OneCallerPerSubmission ==
  [][/\ Len(subs') > Len(subs) => subs'[Len(subs')].user = user
     /\ \A i \in 1..Len(subs) : subs'[i].user = subs[i].user
     /\ \A i \in 1..Len(subs') :
          LET s == subs'[i] IN
            /\ s.writes # <<>> =>
                 s.user \in Users /\ s.writes[1].rows[1].created_by = s.user
            /\ Len(s.writes) >= 2 =>
                 s.writes[2].rows = <<[click_id |-> s.click, user_id |-> s.user,
                                       role |-> "admin"]>>
            /\ \A c \in clicks' : c.id = s.click => c.created_by = s.user
            /\ \A m \in click_members' :
                 (m.click_id = s.click /\ m.role = "admin") => m.user_id = s.user]_vars

\* The admin row of a submission is stored for its caller after the session
\* has lost its user.
C26_Witness ==
  \E i \in 1..Len(subs) :
    /\ user = None
    /\ subs[i].user \in Users
    /\ Len(subs[i].resp) >= 2
    /\ subs[i].resp[2] = "ok"
    /\ \E m \in click_members : m.click_id = subs[i].click /\ m.user_id = subs[i].user

\* C27: the step in which a submission ends in a failure (its guard finds no
\* user, or one of its three inserts is answered with an error) changes
\* nothing of the dialog: it is open or closed as before, and the form
\* values and the list of selected invitees are as before.
C27_FailureLeavesDialog ==
  [][/\ (Len(subs') > Len(subs) /\ subs'[Len(subs')].outcome = "unauthenticated") =>
          UNCHANGED <<open, commandOpen, selectedMembers, form>>
     /\ \A i \in 1..Len(subs) :
          (/\ subs[i].pc # "done"
           /\ subs'[i].outcome \in {"clickError", "creatorError", "membersError"}) =>
             UNCHANGED <<open, commandOpen, selectedMembers, form>>]_vars

\* The invitee insert has failed, and the dialog is open with the submitted
\* values and invitees.
C27_Witness ==
  \E i \in 1..Len(subs) :
    /\ subs[i].outcome = "membersError"
    /\ open
    /\ form = subs[i].data
    /\ selectedMembers = subs[i].members

\* C24: the submissions whose Group insert was answered have each a Group
\* row of their own, under identifiers that differ; every Membership row a
\* submission writes, the admin's and the invitees', carries the identifier
\* of its own Group, and every stored Membership row belongs to the one
\* submission whose Group it references.
C24_EachItsOwnGroup ==
  /\ \A i \in Answered(1) : \A j \in Answered(1) :
       i # j => /\ subs[i].click # subs[j].click
                /\ GroupsOf(subs[i]) \cap GroupsOf(subs[j]) = {}
  /\ \A i \in Answered(1) : Cardinality(GroupsOf(subs[i])) = 1
  /\ \A i \in 1..Len(subs) :
       \A k \in MembershipWrites(subs[i]) :
         \A j \in 1..Len(subs[i].writes[k].rows) :
           /\ subs[i].writes[k].rows[j].click_id = subs[i].click
           /\ subs[i].click # 0
  /\ \A m \in click_members :
       \E i \in 1..Len(subs) :
         /\ subs[i].click = m.click_id
         /\ \E k \in MembershipWrites(subs[i]) : m \in Range(subs[i].writes[k].rows)
         /\ \A j \in 1..Len(subs) : subs[j].click = m.click_id => j = i

\* Two submissions with invitees are in flight together, the second's Group
\* insert was answered before the first's, and both have written Membership
\* rows.
C24_Witness ==
  /\ Len(subs) = 2
  /\ subs[1].pc = "awaitMembers"
  /\ subs[2].pc = "awaitMembers"
  /\ subs[2].click < subs[1].click
  /\ \A i \in 1..2 : \E m \in click_members : m.click_id = subs[i].click

\* A submission has ended with its one toast, having issued every write its
\* answers called for and no write that is unanswered.
Finished(s) ==
  /\ s.pc = "done"
  /\ Len(s.toasts) = 1
  /\ Len(s.writes) = Len(s.resp)
  /\ (s.resp # <<>> /\ s.resp[Len(s.resp)] = "ok") => AllInsertsSucceeded(s)

\* C23: when the dialog is closed while a submission is in flight, the
\* submission goes on as the answers of the backend have it: it issues the
\* admin insert and the invitee insert that are left, and ends with its
\* toast.
C23_ClosingDoesNotAbort ==
  \A i \in 1..MaxSubmissions :
    (Len(subs) >= i /\ subs[i].pc # "done" /\ ~open)
      ~> (Len(subs) >= i /\ Finished(subs[i]))

\* The dialog was cancelled while the Group insert of a submission with an
\* invitee is unanswered.
C23_Witness ==
  \E i \in 1..Len(subs) :
    /\ subs[i].pc = "awaitClick"
    /\ Len(subs[i].members) > 0
    /\ ~open
    /\ form = DefaultValues
    /\ selectedMembers = <<>>

\* C28: every submission that entered onSubmit ends, with one toast, and
\* no submission ever issues more than three writes.
C28_Terminates ==
  /\ [](\A i \in 1..Len(subs) : Len(subs[i].writes) <= 3)
  /\ \A i \in 1..MaxSubmissions :
       (Len(subs) >= i /\ subs[i].outcome # "invalid")
         ~> (Len(subs) >= i /\ subs[i].pc = "done" /\ Len(subs[i].toasts) = 1
             /\ subs[i].outcome \in Outcomes)

\* A submission has ended after three writes.
C28_Witness ==
  \E i \in 1..Len(subs) :
    /\ subs[i].pc = "done"
    /\ Len(subs[i].writes) = 3
    /\ Len(subs[i].resp) = 3

\* The fields of a row other than the avatar reference.
OtherFields(row) == [k \in DOMAIN row \ {"avatar_url"} |-> row[k]]

\* C29: the steps of an avatar upload (the answers to its upload and to its
\* update of the profile) and the answer to the refetch that follows a
\* successful one, taken while the editor is in editing mode, leave the
\* values of the form as they are; and the steps of an upload write no field
\* of a stored profile other than avatar_url.
C29_UploadKeepsForm ==
  [][/\ uploads' # uploads =>
          /\ formData' = formData
          /\ \A u \in Users : OtherFields(profiles'[u]) = OtherFields(profiles[u])
     /\ (isEditing /\ Replaced # {} /\ fetching /\ ~fetching') =>
          formData' = formData]_vars

====
